---------------------------- MODULE Spec2Model ----------------------------
(***************************************************************************)
(* A model of h/schemas/base.py: the JSON-schema validator wrapper         *)
(* (JSONSchema.validate), the pruning pass (remove_unknown_properties),    *)
(* the enum node type (enum_type), the query-string normaliser             *)
(* (combine_repeated_fields, validate_query_params) and the two error      *)
(* formatters.                                                             *)
(*                                                                         *)
(* Python objects live in a heap of nodes addressed by number, so that     *)
(* in-place mutation, aliasing and copy.deepcopy are what they are in the  *)
(* program.  Strings that the program builds (error messages) are          *)
(* sequences of tokens, so that joining and formatting are computed.       *)
(***************************************************************************)
EXTENDS Integers, Sequences, FiniteSets, TLC

VARIABLES
    heap,             \* the Python heap: address -> [kind, kids]
    data,             \* address of the caller's document
    schema,           \* the JSON schema (a value; the program never mutates it)
    data_properties,  \* remove_unknown_properties' work list
    pc,               \* position of the JSON path
    run,              \* how many times remove_unknown_properties was called
    pushed,           \* addresses appended to the work list in the current run
    data0,            \* the document as first passed in (a tree value)
    result1,          \* the document after the first pruning run (a tree value)
    appstruct,        \* JSONSchema.validate: address of the deep copy
    before,           \* the caller's document when validate was called (a tree value)
    msg,              \* the message of the raised ValidationError
    enum_cls,         \* enum adapter: the bound enum class (name -> value)
    epc,              \* enum adapter: position
    appval,           \* enum adapter: the value handed to serialize
    cstruct,          \* enum adapter: the serialized form / the token to deserialize
    eout,             \* enum adapter: what deserialize returned or raised
    qschema,          \* query path: the colander schema (child name -> type kind)
    params,           \* query path: the MultiDict, a sequence of (key, value)
    qpc,              \* query path: position
    qout,             \* query path: the returned mapping / the raised message
    qexc              \* query path: the colander.Invalid raised by the engine

jvars == <<heap, data, schema, data_properties, pc, run, pushed, data0, result1,
           appstruct, before, msg>>
evars == <<enum_cls, epc, appval, cstruct, eout>>
qvars == <<qschema, params, qpc, qout, qexc>>
vars == <<jvars, evars, qvars>>

---------------------------------------------------------------------------
(* Bounds of the model.                                                    *)

MaxDocNodes == 3        \* nodes (mappings, lists, scalars) of a document
MaxSchemaNodes == 3     \* schema nodes of a JSON schema
MaxRuns == 2            \* calls of remove_unknown_properties on one document
MaxEnumValue == 1       \* values of enum members are 0..MaxEnumValue
MaxParams == 2          \* pairs of a MultiDict
MaxErrNodes == 3        \* errors of a colander.Invalid tree, its root included

Keys == {"a", "b"}      \* property names
None == "None"          \* Python's None

---------------------------------------------------------------------------
(* Documents as values: a tree of [kind, kids].  kind is "dict", "list",   *)
(* or a scalar ("str", "num"); kids maps a key (a list index, written as   *)
(* its decimal string, for a list) to the child.                           *)

NoKids == [k \in {} |-> None]

Node(kind, kids) == [kind |-> kind, kids |-> kids]

Scalars == {"str", "num"}

RECURSIVE DocsOfSize(_), KidsOfSize(_, _)
DocsOfSize(n) ==
    IF n < 1 THEN {}
    ELSE IF n = 1
    THEN {Node(s, NoKids) : s \in Scalars} \cup {Node("dict", NoKids), Node("list", NoKids)}
    ELSE {Node("list", "0" :> c) : c \in DocsOfSize(n - 1)}
         \cup {Node("dict", f) : f \in KidsOfSize(Keys, n - 1)}

KidsOfSize(keys, n) ==
    IF keys = {} THEN (IF n = 0 THEN {NoKids} ELSE {})
    ELSE LET k == CHOOSE x \in keys : TRUE
             rest == keys \ {k}
         IN KidsOfSize(rest, n)
            \cup UNION {{(k :> c) @@ f : c \in DocsOfSize(i), f \in KidsOfSize(rest, n - i)}
                        : i \in 1..n}

Docs == UNION {DocsOfSize(n) : n \in 1..MaxDocNodes}

(* JSON schemas as values: [hasProps, props, type, required].  hasProps    *)
(* says whether the node carries a "properties" keyword, props is its      *)
(* value; type is "any" when the node carries no "type" keyword.           *)

SchemaNode(hasProps, props, type, required) ==
    [hasProps |-> hasProps, props |-> props, type |-> type, required |-> required]

RECURSIVE SchemasOfSize(_, _), PropsOfSize(_, _, _)
SchemasOfSize(n, strict) ==
    IF n < 1 THEN {}
    ELSE (IF n = 1
          THEN {SchemaNode(FALSE, NoKids, IF strict THEN "string" ELSE "any", {})}
          ELSE {})
         \cup {SchemaNode(TRUE, f, IF strict THEN "object" ELSE "any",
                          IF strict THEN DOMAIN f ELSE {})
               : f \in PropsOfSize(Keys, n - 1, strict)}

PropsOfSize(keys, n, strict) ==
    IF keys = {} THEN (IF n = 0 THEN {NoKids} ELSE {})
    ELSE LET k == CHOOSE x \in keys : TRUE
             rest == keys \ {k}
         IN PropsOfSize(rest, n, strict)
            \cup UNION {{(k :> c) @@ f : c \in SchemasOfSize(i, strict),
                                        f \in PropsOfSize(rest, n - i, strict)}
                        : i \in 1..n}

\* The root of a schema handed to remove_unknown_properties has "properties".
Schemas ==
    {s \in UNION {SchemasOfSize(n, strict) : n \in 1..MaxSchemaNodes, strict \in BOOLEAN}
       : s.hasProps}

---------------------------------------------------------------------------
(* The heap.                                                               *)

RECURSIVE Store(_, _), StoreKids(_, _, _, _)
\* Allocate the tree t in heap h: <<the new heap, the address of t's root>>.
Store(h, t) ==
    LET r == StoreKids(h, t.kids, DOMAIN t.kids, NoKids)
        h2 == Append(r[1], Node(t.kind, r[2]))
    IN <<h2, Len(h2)>>

StoreKids(h, kids, keys, acc) ==
    IF keys = {} THEN <<h, acc>>
    ELSE LET k == CHOOSE x \in keys : TRUE
             s == Store(h, kids[k])
         IN StoreKids(s[1], kids, keys \ {k}, (k :> s[2]) @@ acc)

RECURSIVE Tree(_, _)
\* The value (deep structure) of the object at address a.
Tree(h, a) == Node(h[a].kind, [k \in DOMAIN h[a].kids |-> Tree(h, h[a].kids[k])])

RECURSIVE Reach(_, _)
\* The addresses reachable from a, a included.
Reach(h, a) == {a} \cup UNION {Reach(h, h[a].kids[k]) : k \in DOMAIN h[a].kids}

Restrict(f, S) == [k \in S |-> f[k]]

IsDict(h, a) == h[a].kind = "dict"


\* The sequences that list every element of S exactly once.
Orders(S) ==
    {q \in [1..Cardinality(S) -> S] : \A i, j \in 1..Cardinality(S) : q[i] = q[j] => i = j}

Last(q) == q[Len(q)]
Front(q) == SubSeq(q, 1, Len(q) - 1)

---------------------------------------------------------------------------
(* remove_unknown_properties(data, schema)                                 *)

\* Mutants of ExtraProps: nothing is extra; only one extra key is found.
ExtraProps_none(dataKeys, schemaKeys) == {}

ExtraProps_one(dataKeys, schemaKeys) ==
    LET extra == dataKeys \ schemaKeys
    IN IF extra = {} THEN {} ELSE {CHOOSE k \in extra : TRUE}

\* extra_props = set(data_d.keys()) - set(schema_d.keys())
ExtraProps(dataKeys, schemaKeys) == dataKeys \ schemaKeys

\* remove_props(data, properties): del data[prop] for each prop; raises
\* KeyError when some prop is not a key of data.
remove_props(kids, properties) ==
    IF properties \subseteq DOMAIN kids
    THEN [raised |-> FALSE, kids |-> Restrict(kids, DOMAIN kids \ properties)]
    ELSE [raised |-> TRUE, kids |-> kids]

\* Mutant of HasNestedProps: every nested mapping is descended into.
HasNestedProps_always(schema_d, prop) == TRUE

\* "properties" in schema_d[prop]
HasNestedProps(schema_d, prop) == schema_d[prop].hasProps

\* Mutant of NestedProps: the nested mapping is paired with the properties of
\* the level above it.
NestedProps_parent(schema_d, prop) == schema_d

\* schema_d[prop]["properties"]
NestedProps(schema_d, prop) == schema_d[prop].props

\* remove_unknown_properties is called:
\* data_properties = [(data, schema["properties"])]
remove_unknown_properties ==
    /\ pc \in {"start", "pruned"}
    /\ run < MaxRuns
    /\ data_properties' = <<[d |-> data, s |-> schema.props]>>
    /\ pushed' = <<data>>
    /\ run' = run + 1
    /\ pc' = "pruning"
    /\ UNCHANGED <<heap, data, schema, data0, result1, appstruct, before, msg>>
    /\ UNCHANGED <<evars, qvars>>

\* Where the loop stands once the body has left the work list as wl.
AfterBody(wl) == IF wl = <<>> THEN "pruned" ELSE "pruning"

\* One iteration of the while loop: pop, delete the extra properties, push
\* the nested mappings whose schema entry has "properties".  The order in
\* which data_d.items() yields the keys is the dictionary's own.
Iterate ==
    /\ pc = "pruning"
    /\ data_properties # <<>>
    /\ LET data_d == Last(data_properties).d
           schema_d == Last(data_properties).s
           rest == Front(data_properties)
       IN IF ~IsDict(heap, data_d)
          THEN \* data_d.keys() raises AttributeError
               /\ pc' = "error"
               /\ data_properties' = rest
               /\ UNCHANGED <<heap, pushed, result1>>
          ELSE LET extra_props == ExtraProps(DOMAIN heap[data_d].kids, DOMAIN schema_d)
                   removed == remove_props(heap[data_d].kids, extra_props)
                   kept == removed.kids
               IN IF removed.raised
                  THEN /\ pc' = "error"
                       /\ data_properties' = rest
                       /\ UNCHANGED <<heap, pushed, result1>>
                  ELSE LET heap2 == [heap EXCEPT ![data_d].kids = kept]
                           dicts == {k \in DOMAIN kept : IsDict(heap2, kept[k])}
                       IN IF ~(dicts \subseteq DOMAIN schema_d)
                          THEN \* schema_d[prop] raises KeyError
                               /\ pc' = "error"
                               /\ heap' = heap2
                               /\ data_properties' = rest
                               /\ UNCHANGED <<pushed, result1>>
                          ELSE \E order \in Orders({k \in dicts : HasNestedProps(schema_d, k)}) :
                                 LET new == [i \in 1..Len(order) |->
                                               [d |-> kept[order[i]],
                                                s |-> NestedProps(schema_d, order[i])]]
                                 IN /\ heap' = heap2
                                    /\ data_properties' = rest \o new
                                    /\ pushed' = pushed \o [i \in 1..Len(order) |-> new[i].d]
                                    /\ pc' = AfterBody(rest \o new)
                                    /\ result1' = IF run = 1 /\ rest \o new = <<>>
                                                  THEN Tree(heap2, data) ELSE result1
    /\ UNCHANGED <<data, schema, run, data0, appstruct, before, msg>>
    /\ UNCHANGED <<evars, qvars>>

---------------------------------------------------------------------------
(* Strings built by the program, as sequences of tokens.                   *)

RECURSIVE Join(_, _)
\* sep.join(parts), parts a sequence of strings
Join(sep, parts) ==
    IF parts = <<>> THEN <<>>
    ELSE IF Len(parts) = 1 THEN parts[1]
    ELSE parts[1] \o <<sep>> \o Join(sep, Tail(parts))

\* The strings between the occurrences of the token sep in s.
RECURSIVE Split(_, _, _)
Split(sep, s, cur) ==
    IF s = <<>> THEN <<cur>>
    ELSE IF Head(s) = sep THEN <<cur>> \o Split(sep, Tail(s), <<>>)
    ELSE Split(sep, Tail(s), Append(cur, Head(s)))

---------------------------------------------------------------------------
(* The Draft 4 validator behind JSONSchema.validate, for the keywords      *)
(* "type", "required" and "properties".  An error is [path, message].      *)

KeyOrder == <<"a", "b">>    \* the order in which a "required" list names properties

\* The orders in which the validator may visit a schema's keywords and the
\* entries of "properties" (the iteration order of those dictionaries): the
\* three keywords, then the property names.
KeywordOrders ==
    {kws \o props : kws \in Orders({"type", "required", "properties"}), props \in Orders(Keys)}

TypeOk(kind, type) ==
    \/ type = "any"
    \/ type = "object" /\ kind = "dict"
    \/ type = "string" /\ kind = "str"

TypeError(kind, type) == <<kind, " is not of type ", type>>
RequiredError(prop) == <<prop, " is a required property">>

RECURSIVE iter_errors(_, _, _, _), PropertyErrors(_, _, _, _, _)
iter_errors(t, s, path, kws) ==
    LET ofKeyword(kw) ==
          IF kw = "type"
          THEN IF TypeOk(t.kind, s.type) THEN <<>>
               ELSE <<[path |-> path, message |-> TypeError(t.kind, s.type)]>>
          ELSE IF t.kind # "dict" THEN <<>>
          ELSE IF kw = "required"
          THEN LET missing == SelectSeq(KeyOrder, LAMBDA p : p \in s.required
                                                      /\ p \notin DOMAIN t.kids)
               IN [i \in 1..Len(missing) |->
                     [path |-> path, message |-> RequiredError(missing[i])]]
          ELSE IF s.hasProps THEN PropertyErrors(t, s, path, kws, 1) ELSE <<>>
    IN ofKeyword(kws[1]) \o ofKeyword(kws[2]) \o ofKeyword(kws[3])

PropertyErrors(t, s, path, kws, i) ==
    IF i > Cardinality(Keys) THEN <<>>
    ELSE LET p == kws[3 + i]
         IN (IF p \in DOMAIN s.props /\ p \in DOMAIN t.kids
             THEN iter_errors(t.kids[p], s.props[p], Append(path, p), kws)
             ELSE <<>>)
            \o PropertyErrors(t, s, path, kws, i + 1)

---------------------------------------------------------------------------
(* JSONSchema.validate(data) and _format_jsonschema_error(error)           *)

\* '.'.join([str(c) for c in error.path])
DottedPath(path) == Join(".", [i \in 1..Len(path) |-> <<path[i]>>])

_format_jsonschema_error(error) ==
    IF error.path # <<>>
    THEN DottedPath(error.path) \o <<": ">> \o error.message
    ELSE error.message

\* Mutant of ErrorMessage: only the first error is reported.
ErrorMessage_first(errors) == _format_jsonschema_error(errors[1])

\* ', '.join([_format_jsonschema_error(e) for e in errors])
ErrorMessage(errors) ==
    Join(", ", [i \in 1..Len(errors) |-> _format_jsonschema_error(errors[i])])

\* Mutant of deepcopy: no copy is taken.
deepcopy_alias(h, a) == <<h, a>>

\* copy.deepcopy(data): <<the new heap, the address of the copy>>
deepcopy(h, a) == Store(h, Tree(h, a))

validate ==
    /\ pc \in {"start", "pruned"}
    /\ LET copy == deepcopy(heap, data)
           value == Tree(copy[1], copy[2])
       IN \E errors \in {iter_errors(value, schema, <<>>, kws) : kws \in KeywordOrders} :
            /\ heap' = copy[1]
            /\ before' = Tree(heap, data)
            /\ IF errors # <<>>
               THEN /\ msg' = ErrorMessage(errors)
                    /\ appstruct' = 0
                    /\ pc' = "raised"
               ELSE /\ msg' = <<>>
                    /\ appstruct' = copy[2]
                    /\ pc' = "returned"
    /\ UNCHANGED <<data, schema, data_properties, run, pushed, data0, result1>>
    /\ UNCHANGED <<evars, qvars>>

\* The caller changes the value validate returned: del result[k] or
\* result[k] = <a new number>, on any mapping of the result.
MutateResult ==
    /\ pc = "returned"
    /\ \E a \in Reach(heap, appstruct) :
         /\ IsDict(heap, a)
         /\ \/ \E k \in DOMAIN heap[a].kids :
                 heap' = [heap EXCEPT ![a].kids = Restrict(@, DOMAIN @ \ {k})]
            \/ \E k \in Keys :
                 LET new == Store(heap, Node("num", NoKids))
                 IN heap' = [new[1] EXCEPT ![a].kids = (k :> new[2]) @@ @]
    /\ pc' = "mutated"
    /\ UNCHANGED <<data, schema, data_properties, run, pushed, data0, result1,
                   appstruct, before, msg>>
    /\ UNCHANGED <<evars, qvars>>

---------------------------------------------------------------------------
(* enum_type(enum_cls): EnumType.serialize and EnumType.deserialize.       *)
(* An enum class is [kind, members]: members maps each member's name to    *)
(* its value; a member of an IntEnum is falsy when its value is 0, a       *)
(* member of a plain Enum never is.  The values of a class are distinct:   *)
(* a repeated value would define an alias of a member, not a member.       *)

EnumNames == {"A", "a"}
ColanderNull == "<colander.null>"

NoneValue == [tag |-> "None", name |-> "", value |-> 0]
Member(name, value) == [tag |-> "member", name |-> name, value |-> value]

EnumClasses ==
    {[kind |-> kd, members |-> f] :
       kd \in {"Enum", "IntEnum"},
       f \in {g \in UNION {[N -> 0..MaxEnumValue] : N \in SUBSET EnumNames \ {{}}} :
                \A x, y \in DOMAIN g : g[x] = g[y] => x = y}}

Members(cls) == {Member(n, cls.members[n]) : n \in DOMAIN cls.members}

\* bool(appstruct)
Truthy(cls, member) ==
    /\ member.tag = "member"
    /\ cls.kind = "IntEnum" => member.value # 0

\* EnumType.serialize(node, appstruct)
serialize(cls, member) ==
    IF ~Truthy(cls, member) THEN "" ELSE member.name

NotKnownValue(token) == <<"\"", token, "\" is not a known value">>

\* EnumType.deserialize(node, cstruct)
deserialize(cls, token) ==
    IF token = ColanderNull
    THEN [raised |-> FALSE, value |-> NoneValue, msg |-> <<>>]
    ELSE IF token \in DOMAIN cls.members
    THEN [raised |-> FALSE, value |-> Member(token, cls.members[token]), msg |-> <<>>]
    ELSE [raised |-> TRUE, value |-> NoneValue, msg |-> NotKnownValue(token)]

\* What a caller may hand to deserialize: member names, other spellings,
\* the members' values written out, the empty string, colander.null.
Tokens ==
    EnumNames \cup {"B", ""} \cup {ToString(v) : v \in 0..MaxEnumValue} \cup {ColanderNull}

NoResult == [raised |-> FALSE, value |-> NoneValue, msg |-> <<>>]

Serialize ==
    /\ epc = "idle"
    /\ \E m \in Members(enum_cls) \cup {NoneValue} :
         /\ appval' = m
         /\ cstruct' = serialize(enum_cls, m)
    /\ epc' = "serialized"
    /\ UNCHANGED <<enum_cls, eout>>
    /\ UNCHANGED <<jvars, qvars>>

\* deserialize applied to what serialize returned
DeserializeBack ==
    /\ epc = "serialized"
    /\ eout' = deserialize(enum_cls, cstruct)
    /\ epc' = "roundtrip"
    /\ UNCHANGED <<enum_cls, appval, cstruct>>
    /\ UNCHANGED <<jvars, qvars>>

Deserialize ==
    /\ epc = "idle"
    /\ \E token \in Tokens :
         /\ cstruct' = token
         /\ eout' = deserialize(enum_cls, token)
    /\ epc' = "deserialized"
    /\ UNCHANGED <<enum_cls, appval>>
    /\ UNCHANGED <<jvars, qvars>>

---------------------------------------------------------------------------
(* combine_repeated_fields(schema, data)                                   *)
(* A colander schema is a map from child name to the kind of its type;     *)
(* a MultiDict is a sequence of <<key, value>>.  A value of the result is  *)
(* [list, items]: the list items, or the single value items[1].            *)

QKeys == {"offset", "quote"}
QValues == {"10", "20"}

QSchemas == UNION {[N -> {"Integer", "Sequence"}] : N \in SUBSET QKeys}

ParamSeqs == UNION {[1..n -> QKeys \X QValues] : n \in 0..MaxParams}

RECURSIVE dict_of_lists(_)
\* MultiDict.dict_of_lists(): each key with the list of its values, in order
dict_of_lists(pairs) ==
    IF pairs = <<>> THEN NoKids
    ELSE LET r == dict_of_lists(Front(pairs))
             key == Last(pairs)[1]
             value == Last(pairs)[2]
         IN IF key \in DOMAIN r
            THEN [r EXCEPT ![key] = Append(@, value)]
            ELSE (key :> <<value>>) @@ r

\* schema.get(key) is a node whose typ is a colander.Sequence
IsSequenceNode(sch, key) == key \in DOMAIN sch /\ sch[key] = "Sequence"

\* Mutant of KeepLast: the first entry is kept.
KeepFirst(values) == [list |-> FALSE, items |-> <<values[1]>>]

\* result[key] = values[-1]
KeepLast(values) == [list |-> FALSE, items |-> <<Last(values)>>]

combine_repeated_fields(sch, pairs) ==
    LET result == dict_of_lists(pairs)
    IN [key \in DOMAIN result |->
          IF ~IsSequenceNode(sch, key)
          THEN KeepLast(result[key])
          ELSE [list |-> TRUE, items |-> result[key]]]

---------------------------------------------------------------------------
(* colander.Invalid, _colander_exception_msg and validate_query_params     *)
(* An Invalid is [name, msg, children]: the key name of its node ("" for   *)
(* the schema itself), its message ("" for none) and its child errors.     *)

ErrNames == QKeys
ErrMsgs == {"", "e"}

Invalid(name, m, children) == [name |-> name, msg |-> m, children |-> children]

UniqueNames(children) ==
    \A i, j \in 1..Len(children) : children[i].name = children[j].name => i = j

RECURSIVE ErrorsOfSize(_), ChildrenOfSize(_)
\* The errors below the root with n nodes.  The children of one error are
\* the errors of distinct child nodes, so their key names differ.
ErrorsOfSize(n) ==
    IF n < 1 THEN {}
    ELSE {Invalid(nm, m, c) : nm \in ErrNames, m \in ErrMsgs, c \in ChildrenOfSize(n - 1)}

ChildrenOfSize(n) ==
    IF n = 0 THEN {<<>>}
    ELSE {c \in UNION {{<<e>> \o rest : e \in ErrorsOfSize(i), rest \in ChildrenOfSize(n - i)}
                       : i \in 1..n}
            : UniqueNames(c)}

\* What schema.deserialize may raise: the schema's own error, its key name
\* empty, over at most MaxErrNodes nodes.
ErrorTrees ==
    {Invalid("", m, c) :
       m \in ErrMsgs,
       c \in UNION {ChildrenOfSize(n) : n \in 0..(MaxErrNodes - 1)}}

RECURSIVE paths(_)
\* Invalid.paths(): each path from exc to a leaf, as the sequence of errors on it
paths(exc) ==
    IF exc.children = <<>> THEN <<<<exc>>>>
    ELSE LET below(i) == LET ps == paths(exc.children[i])
                         IN [j \in 1..Len(ps) |-> <<exc>> \o ps[j]]
             RECURSIVE all(_)
             all(i) == IF i > Len(exc.children) THEN <<>> ELSE below(i) \o all(i + 1)
         IN all(1)

\* '.'.join(keyparts), keyparts the non-empty key names on the path
KeyOf(path) ==
    LET named == SelectSeq(path, LAMBDA e : e.name # "")
    IN Join(".", [i \in 1..Len(named) |-> <<named[i].name>>])

\* '; '.join(msgs), msgs the messages of the errors on the path that have one
MsgOf(path) ==
    LET with == SelectSeq(path, LAMBDA e : e.msg # "")
    IN Join("; ", [i \in 1..Len(with) |-> <<with[i].msg>>])

RECURSIVE DictOf(_)
\* a dict built by assigning the pairs in order: later pairs overwrite
DictOf(pairs) ==
    IF pairs = <<>> THEN NoKids
    ELSE (Last(pairs)[1] :> Last(pairs)[2]) @@ DictOf(Front(pairs))

\* Invalid.asdict()
asdict(exc) ==
    LET ps == paths(exc)
    IN DictOf([i \in 1..Len(ps) |-> <<KeyOf(ps[i]), MsgOf(ps[i])>>])

RECURSIVE UpdateAll(_, _, _)
\* for child in exc.children: msg_dict.update(child.asdict())
UpdateAll(msg_dict, children, i) ==
    IF i > Len(children) THEN msg_dict
    ELSE UpdateAll(asdict(children[i]) @@ msg_dict, children, i + 1)

\* Mutant of MsgDict: the children's dictionaries are not merged in.
MsgDict_rootOnly(exc) == asdict(exc)

\* msg_dict after the loop of _colander_exception_msg
MsgDict(exc) == UpdateAll(asdict(exc), exc.children, 1)

\* _colander_exception_msg(exc); order is the order of msg_dict.items()
_colander_exception_msg(exc, order) ==
    LET msg_dict == MsgDict(exc)
    IN Join("\n", [i \in 1..Len(order) |-> order[i] \o <<": ">> \o msg_dict[order[i]]])

Accepted == Invalid("", "", <<>>)    \* qexc when the engine raised nothing

\* combine_repeated_fields called on its own
Combine ==
    /\ qpc = "start"
    /\ qout' = [exc |-> "", value |-> combine_repeated_fields(qschema, params), msg |-> <<>>]
    /\ qpc' = "combined"
    /\ UNCHANGED <<qschema, params, qexc>>
    /\ UNCHANGED <<jvars, evars>>

\* validate_query_params(schema, params): the schema's deserialize either
\* returns (dropping the keys the schema does not name) or raises an
\* Invalid whose children are errors of the schema's own child nodes; the
\* order of msg_dict.items() is the dictionary's own.
validate_query_params ==
    /\ qpc = "start"
    /\ LET combined_params == combine_repeated_fields(qschema, params)
       IN \/ /\ qexc' = Accepted
             /\ qout' = [exc |-> "",
                         value |-> Restrict(combined_params,
                                            DOMAIN combined_params \cap DOMAIN qschema),
                         msg |-> <<>>]
             /\ qpc' = "returned"
          \/ \E exc \in {t \in ErrorTrees : \A i \in 1..Len(t.children) :
                                             t.children[i].name \in DOMAIN qschema} :
               \E order \in Orders(DOMAIN MsgDict(exc)) :
                 /\ qexc' = exc
                 /\ qout' = [exc |-> "ValidationError",
                             value |-> NoKids,
                             msg |-> _colander_exception_msg(exc, order)]
                 /\ qpc' = "raised"
    /\ UNCHANGED <<qschema, params>>
    /\ UNCHANGED <<jvars, evars>>

---------------------------------------------------------------------------
JInit ==
    \E d \in Docs, s \in Schemas :
      LET st == Store(<<>>, d)
      IN /\ heap = st[1]
         /\ data = st[2]
         /\ schema = s
         /\ data_properties = <<>>
         /\ pc = "start"
         /\ run = 0
         /\ pushed = <<>>
         /\ data0 = d
         /\ result1 = d
         /\ appstruct = 0
         /\ before = d
         /\ msg = <<>>

JIdle ==
    /\ heap = <<>> /\ data = 0 /\ schema = NoKids /\ data_properties = <<>>
    /\ pc = "idle" /\ run = 0 /\ pushed = <<>> /\ data0 = NoKids /\ result1 = NoKids
    /\ appstruct = 0 /\ before = NoKids /\ msg = <<>>

EInit ==
    /\ enum_cls \in EnumClasses
    /\ epc = "idle"
    /\ appval = NoneValue
    /\ cstruct = ""
    /\ eout = NoResult

EIdle ==
    /\ enum_cls = NoKids /\ epc = "off" /\ appval = NoneValue /\ cstruct = ""
    /\ eout = NoResult

QInit ==
    /\ qschema \in QSchemas
    /\ params \in ParamSeqs
    /\ qpc = "start"
    /\ qout = [exc |-> "", value |-> NoKids, msg |-> <<>>]
    /\ qexc = Accepted

QIdle ==
    /\ qschema = NoKids /\ params = <<>> /\ qpc = "off"
    /\ qout = [exc |-> "", value |-> NoKids, msg |-> <<>>] /\ qexc = Accepted

Init == JInit /\ EIdle /\ QIdle

Next == remove_unknown_properties \/ Iterate \/ validate \/ MutateResult

Spec == Init /\ [][Next]_vars

\* The enum adapter.
EnumNext == Serialize \/ DeserializeBack \/ Deserialize

EnumInit == JIdle /\ EInit /\ QIdle

EnumSpec == EnumInit /\ [][EnumNext]_vars

\* The query-string path.
QueryNext == Combine \/ validate_query_params

QueryInit == JIdle /\ EIdle /\ QInit

QuerySpec == QueryInit /\ [][QueryNext]_vars

\* remove_unknown_properties alone, its loop running to completion once called.
PruneNext == remove_unknown_properties \/ Iterate

FairPruneSpec == Init /\ [][PruneNext]_vars /\ WF_vars(Iterate)

---------------------------------------------------------------------------
(* What the claims are stated with.                                        *)

RECURSIVE Paths(_)
\* The paths (sequences of keys) from the root of t to each of its nodes.
Paths(t) == {<<>>} \cup UNION {{<<k>> \o q : q \in Paths(t.kids[k])} : k \in DOMAIN t.kids}

RECURSIVE At(_, _)
At(t, path) == IF path = <<>> THEN t ELSE At(t.kids[Head(path)], Tail(path))

RECURSIVE AddrAt(_, _, _)
AddrAt(h, a, path) == IF path = <<>> THEN a ELSE AddrAt(h, h[a].kids[Head(path)], Tail(path))

\* The schema reaches the node at path: every node above it is a mapping
\* whose schema node has "properties" naming the key taken.
RECURSIVE Governed(_, _, _)
Governed(t, s, path) ==
    \/ path = <<>>
    \/ /\ t.kind = "dict"
       /\ s.hasProps
       /\ Head(path) \in DOMAIN s.props
       /\ Head(path) \in DOMAIN t.kids
       /\ Governed(t.kids[Head(path)], s.props[Head(path)], Tail(path))

RECURSIVE SchemaAt(_, _)
SchemaAt(s, path) == IF path = <<>> THEN s ELSE SchemaAt(s.props[Head(path)], Tail(path))

\* The reference result: at each mapping level the schema describes, keep
\* the keys the schema's properties name; everything else as it is.
RECURSIVE Prune(_, _)
Prune(t, props) ==
    Node(t.kind,
         [k \in DOMAIN t.kids \cap DOMAIN props |->
            IF t.kids[k].kind = "dict" /\ props[k].hasProps
            THEN Prune(t.kids[k], props[k].props)
            ELSE t.kids[k]])

\* t is u with keys of mappings deleted and nothing else changed.
RECURSIVE Shrunk(_, _)
Shrunk(t, u) ==
    IF u.kind = "dict"
    THEN /\ t.kind = "dict"
         /\ DOMAIN t.kids \subseteq DOMAIN u.kids
         /\ \A k \in DOMAIN t.kids : Shrunk(t.kids[k], u.kids[k])
    ELSE t = u

Document == Tree(heap, data)

\* C1: after remove_unknown_properties the document equals the reference
\* result Prune(D, S.properties), whatever order the nested mappings were
\* pushed and popped in; at every moment the document is the original with
\* keys deleted only (no key added, no retained non-mapping value changed).
C1_PruneEqualsReference ==
    /\ Shrunk(Document, data0)
    /\ pc = "pruned" => Document = Prune(data0, schema.props)

\* Two sibling mappings were on the work list together and the run ended.
C1_Witness ==
    /\ pc = "pruned"
    /\ run = 1
    /\ Len(pushed) >= 3
    /\ pushed[2] # pushed[3]
    /\ \E k \in DOMAIN data0.kids : data0.kids[k].kind = "dict"

\* Every field of t is named by the schema: a field of a mapping whose
\* schema node has no "properties", or of a list element, is not.
RECURSIVE NoUnknownFields(_, _, _)
NoUnknownFields(t, hasProps, props) ==
    IF t.kind = "dict"
    THEN \A k \in DOMAIN t.kids :
           /\ hasProps
           /\ k \in DOMAIN props
           /\ NoUnknownFields(t.kids[k], props[k].hasProps, props[k].props)
    ELSE \A k \in DOMAIN t.kids : NoUnknownFields(t.kids[k], FALSE, NoKids)

\* Every field of t that the pruning pass reaches (through mappings whose
\* schema nodes have "properties") is named by the schema.
RECURSIVE NoUnknownReached(_, _)
NoUnknownReached(t, props) ==
    \A k \in DOMAIN t.kids :
      /\ k \in DOMAIN props
      /\ (t.kids[k].kind = "dict" /\ props[k].hasProps)
           => NoUnknownReached(t.kids[k], props[k].props)

\* C2 as stated: no field unknown to the schema, at any depth, is left in
\* the pruned document or in the value validate returns.
C2_NoUnknownAnywhere ==
    /\ pc = "pruned" => NoUnknownFields(Document, TRUE, schema.props)
    /\ pc = "returned" => NoUnknownFields(Tree(heap, appstruct), TRUE, schema.props)

\* C2 amended: after remove_unknown_properties no unknown field is left at
\* the top level or in a nested mapping reached through schema nodes that
\* declare properties; validate removes no field, so its return value is
\* free of such fields exactly when the document was pruned before.
C2_NoUnknownWhereSchemaDescends ==
    /\ pc = "pruned" => NoUnknownReached(Document, schema.props)
    /\ pc = "returned" =>
         /\ Paths(Tree(heap, appstruct)) = Paths(before)
         /\ run >= 1 => NoUnknownReached(Tree(heap, appstruct), schema.props)

\* A nested unknown field was deleted, and the pruned document validated.
C2_Witness ==
    /\ pc = "returned"
    /\ run >= 1
    /\ \E p \in Paths(data0) : Len(p) = 2 /\ p \notin Paths(Tree(heap, appstruct))

\* C3: validate leaves the caller's document as it was, whether it returned
\* or raised; the value returned is equal to the document and shares no
\* object with it, so that changing it afterwards leaves the document alone.
C3_ValidateCopies ==
    /\ pc \in {"returned", "raised", "mutated"} => Document = before
    /\ pc = "returned" =>
         /\ Tree(heap, appstruct) = before
         /\ Reach(heap, appstruct) \cap Reach(heap, data) = {}

\* The caller changed the returned value.
C3_Witness ==
    /\ pc = "mutated"
    /\ Tree(heap, appstruct) # before
    /\ before.kids # NoKids

\* The violations of schema s by document t, found where the schema reaches.
Violations(t, s) ==
    LET reached == {p \in Paths(t) : Governed(t, s, p)}
    IN {[path |-> p, message |-> TypeError(At(t, p).kind, SchemaAt(s, p).type)]
          : p \in {q \in reached : ~TypeOk(At(t, q).kind, SchemaAt(s, q).type)}}
       \cup UNION {{[path |-> p, message |-> RequiredError(k)]
                      : k \in SchemaAt(s, p).required \ DOMAIN At(t, p).kids}
                   : p \in {q \in reached : At(t, q).kind = "dict"}}

\* The entry of the message that reports violation v.
Entry(v) ==
    IF v.path = <<>> THEN v.message ELSE DottedPath(v.path) \o <<": ">> \o v.message

C8_PruneIdempotent == run >= 2 => Document = result1

\* The first run deleted something and the second run has ended.
C8_Witness ==
    /\ run = 2
    /\ pc = "pruned"
    /\ result1 # data0

\* A mapping of the original document whose schema entry has no
\* "properties": the pruning pass must leave it alone.
NotDescended ==
    {p \in Paths(data0) :
       /\ p # <<>>
       /\ Governed(data0, schema, p)
       /\ At(data0, p).kind = "dict"
       /\ ~SchemaAt(schema, p).hasProps}

C9_Safe ==
    data0.kind = "dict" =>
      /\ pc # "error"
      /\ \A i, j \in 1..Len(pushed) : pushed[i] = pushed[j] => i = j
      /\ \A p \in NotDescended :
           /\ At(Document, p) = At(data0, p)
           /\ \A i \in 1..Len(pushed) : pushed[i] # AddrAt(heap, data, p)

\* C9: on a document whose root is a mapping, remove_unknown_properties
\* never raises (every deleted key exists, every schema lookup succeeds),
\* pushes no mapping twice, neither pushes nor touches a mapping whose
\* schema entry has no nested properties, and its loop ends.
\* (Its loop ends: at no point does the loop run for ever, so a run is
\* always either not started or over again.)
C9_PruneTerminates ==
    /\ []C9_Safe
    /\ []<>(data0.kind = "dict" => pc \in {"start", "pruned"})

\* A run ended on a document holding a non-empty mapping under a known key
\* whose schema entry has no "properties".
C9_Witness ==
    /\ pc = "pruned"
    /\ \E p \in NotDescended : At(data0, p).kids # NoKids

\* C5: every member of the bound enum, falsy ones included, survives
\* serialize then deserialize: serialize yields the member's name, and
\* deserialize finds the member of exactly that name.
C5_EnumRoundTrip ==
    /\ (epc \in {"serialized", "roundtrip"} /\ appval.tag = "member")
         => cstruct = appval.name
    /\ (epc = "roundtrip" /\ appval.tag = "member")
         => ~eout.raised /\ eout.value = appval
    /\ (epc = "deserialized" /\ ~eout.raised /\ cstruct # ColanderNull)
         => eout.value.tag = "member" /\ eout.value.name = cstruct

\* C6: the absent value round-trips: serialize(None) is "", deserialize of
\* "" and of colander.null both return None, and deserialize raises only
\* for a non-empty token that is no member name, with the message
\* "<token>" is not a known value.
C6_AbsentRoundTrip ==
    /\ (epc \in {"serialized", "roundtrip"} /\ appval = NoneValue) => cstruct = ""
    /\ (epc \in {"deserialized", "roundtrip"} /\ cstruct \in {"", ColanderNull})
         => ~eout.raised /\ eout.value = NoneValue
    /\ (epc \in {"deserialized", "roundtrip"} /\ eout.raised)
         => /\ cstruct # ""
            /\ cstruct \notin DOMAIN enum_cls.members
            /\ eout.msg = NotKnownValue(cstruct)

\* The values supplied for key, in arrival order.
ValuesOf(pairs, key) ==
    LET mine == SelectSeq(pairs, LAMBDA pr : pr[1] = key)
    IN [i \in 1..Len(mine) |-> mine[i][2]]

\* C7: the result of combine_repeated_fields has exactly the keys of the
\* multimap; a key whose schema node is a Sequence maps to the list of all
\* its values in arrival order, any other key to its last value alone.
C7_CombineRepeatedFields ==
    qpc = "combined" =>
      /\ DOMAIN qout.value = {params[i][1] : i \in 1..Len(params)}
      /\ \A key \in DOMAIN qout.value :
           IF key \in DOMAIN qschema /\ qschema[key] = "Sequence"
           THEN qout.value[key] = [list |-> TRUE, items |-> ValuesOf(params, key)]
           ELSE /\ ~qout.value[key].list
                /\ qout.value[key].items = <<Last(ValuesOf(params, key))>>

\* A key that is no Sequence was given twice, with different values.
C7_Witness ==
    /\ qpc = "combined"
    /\ \E key \in DOMAIN qout.value :
         /\ ~qout.value[key].list
         /\ Len(ValuesOf(params, key)) >= 2
         /\ ValuesOf(params, key)[1] # Last(ValuesOf(params, key))

\* C10: when the engine raises an Invalid, validate_query_params raises a
\* ValidationError whose message has one newline-joined "<path>: <message>"
\* entry per distinct path to a leaf of the error tree; the message of an
\* entry is the child's (the messages from the root's child down to the
\* leaf), not the one that starts with the root's own message.
C10_QueryErrorMessage ==
    qpc = "raised" =>
      LET leaves == {paths(qexc)[i] : i \in 1..Len(paths(qexc))}
          expected(p) == KeyOf(p) \o <<": ">> \o (IF Len(p) > 1 THEN MsgOf(Tail(p)) ELSE MsgOf(p))
          entries == Split("\n", qout.msg, <<>>)
      IN /\ qout.exc = "ValidationError"
         /\ Len(entries) = Cardinality({KeyOf(p) : p \in leaves})
         /\ {entries[i] : i \in 1..Len(entries)} = {expected(p) : p \in leaves}

\* The schema's own error has a message and a child error below it has one.
C10_Witness ==
    /\ qpc = "raised"
    /\ qexc.msg # ""
    /\ \E i \in 1..Len(qexc.children) : qexc.children[i].msg # ""
    /\ \E i \in 1..Len(qexc.children) : qexc.children[i].children # <<>>

=============================================================================
